---- MODULE Spec2Model ----
(***************************************************************************)
(* Model of the tic-tac-toe backend: the RoomHandler class (game logic and *)
(* in-memory state), the Socket.IO handlers (join-room, make-move,         *)
(* chat-message, disconnect) with their await points, and the Prisma store *)
(* they write to.                                                          *)
(*                                                                         *)
(* A handler runs to its first await in one step; each return of a store   *)
(* call is a further step that runs the handler to its next await or to    *)
(* its end.  A store call takes effect at the moment it returns; it may    *)
(* return with a failure, in which case it has no effect.  The events a    *)
(* step emits leave the server before the next handler step runs.          *)
(***************************************************************************)
EXTENDS Integers, Sequences, FiniteSets, TLC

\* ---------------------------------------------------------------- bounds
\* Moves the server accepts in one run.
MaxMoves == 3
\* Moves accepted while a handler that started earlier has not finished.
MaxLag == 1
\* join-room handlers awaiting findFirst at the same time.
MaxJoins == 2
\* POST /join requests in flight at the same time.
MaxRest == 2

\* ---------------------------------------------------------------- inputs
AllCodes == {"A", "B"}
Codes == {"A"}
UserIds == {"u1", "u2", "u3"}
\* Five cells of the board, and one position on each side of the range.
Positions == {-1, 0, 2, 4, 5, 8, 9}
Symbols == {"X", "O"}

NoRoom == [none |-> TRUE]
NoWinner == "null"
EmptyBoard == [i \in 1 .. 9 |-> "_"]
\* "XO_OO_XX_": the board after X0 O1 X6 O3 X7 O4, persisted by updateDB.
MidBoard == <<"X", "O", "_", "O", "O", "_", "X", "X", "_">>

\* The heap of room objects.  The room installed for a code sits at the code's
\* own reference; a room that was replaced in activeRooms while handlers still
\* hold it moves to one of the further references.
CodeRef(c) == IF c = "A" THEN 1 ELSE 2
RoomRefs == 1 .. (2 + MaxJoins)
SpareRefs == 3 .. (2 + MaxJoins)

VARIABLES
    dbGames,      \* the store: sequence of Game rows, a row's id is its index
    rooms,        \* heap of RoomHandler objects, RoomRefs -> room or NoRoom
    activeRooms,  \* SocketHandler.activeRooms: code -> room reference, 0 if absent
    handlers,     \* handlers suspended at an await
    moves,        \* moves accepted so far
    out           \* the handler step just taken and the events it emitted, in order

vars == <<dbGames, rooms, activeRooms, handlers, moves, out>>

\* ------------------------------------------------------------ RoomHandler
Other(s) == IF s = "X" THEN "O" ELSE "X"

Filled(state) == Cardinality({i \in 1 .. 9 : state[i] # "_"})

FindUser(users, id) == {i \in 1 .. Len(users) : users[i].id = id}

\* makeMove without the switch of turns.
makeMoveNoSwitch(g, position, playerId) ==
    IF position < 0 \/ position > 8
    THEN [success |-> FALSE, error |-> "Invalid position", newState |-> g.state, game |-> g]
    ELSE IF g.state[position + 1] # "_"
    THEN [success |-> FALSE, error |-> "Position already occupied", newState |-> g.state, game |-> g]
    ELSE IF FindUser(g.users, playerId) = {}
    THEN [success |-> FALSE, error |-> "Player not found", newState |-> g.state, game |-> g]
    ELSE LET player == g.users[CHOOSE i \in FindUser(g.users, playerId) : TRUE]
         IN IF player.symbol # g.currentPlayer
            THEN [success |-> FALSE, error |-> "Not your turn", newState |-> g.state, game |-> g]
            ELSE [success |-> TRUE, error |-> "",
                  newState |-> [g.state EXCEPT ![position + 1] = player.symbol],
                  game |-> [g EXCEPT !.accepted = g.accepted + 1]]

\* makeMove without the check that the position is free.
makeMoveOverwrite(g, position, playerId) ==
    IF position < 0 \/ position > 8
    THEN [success |-> FALSE, error |-> "Invalid position", newState |-> g.state, game |-> g]
    ELSE IF FindUser(g.users, playerId) = {}
    THEN [success |-> FALSE, error |-> "Player not found", newState |-> g.state, game |-> g]
    ELSE LET player == g.users[CHOOSE i \in FindUser(g.users, playerId) : TRUE]
         IN IF player.symbol # g.currentPlayer
            THEN [success |-> FALSE, error |-> "Not your turn", newState |-> g.state, game |-> g]
            ELSE [success |-> TRUE, error |-> "",
                  newState |-> [g.state EXCEPT ![position + 1] = player.symbol],
                  game |-> [g EXCEPT !.currentPlayer = Other(g.currentPlayer),
                                     !.accepted = g.accepted + 1]]

\* makeMove without the check that it is the player's turn.
makeMoveAnyTurn(g, position, playerId) ==
    IF position < 0 \/ position > 8
    THEN [success |-> FALSE, error |-> "Invalid position", newState |-> g.state, game |-> g]
    ELSE IF g.state[position + 1] # "_"
    THEN [success |-> FALSE, error |-> "Position already occupied", newState |-> g.state, game |-> g]
    ELSE IF FindUser(g.users, playerId) = {}
    THEN [success |-> FALSE, error |-> "Player not found", newState |-> g.state, game |-> g]
    ELSE LET player == g.users[CHOOSE i \in FindUser(g.users, playerId) :
                                  \A j \in FindUser(g.users, playerId) : i <= j]
         IN [success |-> TRUE, error |-> "",
             newState |-> [g.state EXCEPT ![position + 1] = player.symbol],
             game |-> [g EXCEPT !.currentPlayer = Other(g.currentPlayer),
                                !.accepted = g.accepted + 1]]

\* makeMove writing the symbol of the other player into the cell.
makeMoveOtherSymbol(g, position, playerId) ==
    IF position < 0 \/ position > 8
    THEN [success |-> FALSE, error |-> "Invalid position", newState |-> g.state, game |-> g]
    ELSE IF g.state[position + 1] # "_"
    THEN [success |-> FALSE, error |-> "Position already occupied", newState |-> g.state, game |-> g]
    ELSE IF FindUser(g.users, playerId) = {}
    THEN [success |-> FALSE, error |-> "Player not found", newState |-> g.state, game |-> g]
    ELSE LET player == g.users[CHOOSE i \in FindUser(g.users, playerId) :
                                  \A j \in FindUser(g.users, playerId) : i <= j]
         IN IF player.symbol # g.currentPlayer
            THEN [success |-> FALSE, error |-> "Not your turn", newState |-> g.state, game |-> g]
            ELSE [success |-> TRUE, error |-> "",
                  newState |-> [g.state EXCEPT ![position + 1] = Other(player.symbol)],
                  game |-> [g EXCEPT !.currentPlayer = Other(g.currentPlayer),
                                     !.accepted = g.accepted + 1]]

\* RoomHandler.makeMove: the position is in range, the cell is free, the player
\* is in the room and it is the player's turn, in this order; then the turn
\* switches.  The new board is returned, the caller stores it with updateState.
makeMove(g, position, playerId) ==
    IF position < 0 \/ position > 8
    THEN [success |-> FALSE, error |-> "Invalid position", newState |-> g.state, game |-> g]
    ELSE IF g.state[position + 1] # "_"
    THEN [success |-> FALSE, error |-> "Position already occupied", newState |-> g.state, game |-> g]
    ELSE IF FindUser(g.users, playerId) = {}
    THEN [success |-> FALSE, error |-> "Player not found", newState |-> g.state, game |-> g]
    ELSE LET player == g.users[CHOOSE i \in FindUser(g.users, playerId) :
                                  \A j \in FindUser(g.users, playerId) : i <= j]
         IN IF player.symbol # g.currentPlayer
            THEN [success |-> FALSE, error |-> "Not your turn", newState |-> g.state, game |-> g]
            ELSE [success |-> TRUE, error |-> "",
                  newState |-> [g.state EXCEPT ![position + 1] = player.symbol],
                  game |-> [g EXCEPT !.currentPlayer = Other(g.currentPlayer),
                                     !.accepted = g.accepted + 1]]

updateState(g, newState) == [g EXCEPT !.state = newState]

\* winningCombinations with the second diagonal mistyped.
winningCombinationsTypo ==
    << <<0, 1, 2>>, <<3, 4, 5>>, <<6, 7, 8>>,
       <<0, 3, 6>>, <<1, 4, 7>>, <<2, 5, 8>>,
       <<0, 4, 8>>, <<2, 4, 5>> >>

winningCombinations ==
    << <<0, 1, 2>>, <<3, 4, 5>>, <<6, 7, 8>>,
       <<0, 3, 6>>, <<1, 4, 7>>, <<2, 5, 8>>,
       <<0, 4, 8>>, <<2, 4, 6>> >>

LineOf(state, k) ==
    LET c == winningCombinations[k]
    IN /\ state[c[1] + 1] # "_"
       /\ state[c[1] + 1] = state[c[2] + 1]
       /\ state[c[2] + 1] = state[c[3] + 1]

\* checkWinner with the test for a full board before the search for a line.
checkWinnerDrawFirst(state) ==
    IF \A i \in 1 .. 9 : state[i] # "_"
    THEN "draw"
    ELSE IF \E k \in 1 .. 8 : LineOf(state, k)
    THEN LET k == CHOOSE k \in 1 .. 8 :
                     LineOf(state, k) /\ \A j \in 1 .. (k - 1) : ~LineOf(state, j)
         IN state[winningCombinations[k][1] + 1]
    ELSE NoWinner

\* RoomHandler.checkWinner: the symbol of the first of the eight lines whose
\* three cells hold the same symbol, else "draw" if no cell is empty, else null.
checkWinner(state) ==
    IF \E k \in 1 .. 8 : LineOf(state, k)
    THEN LET k == CHOOSE k \in 1 .. 8 :
                     LineOf(state, k) /\ \A j \in 1 .. (k - 1) : ~LineOf(state, j)
         IN state[winningCombinations[k][1] + 1]
    ELSE IF \A i \in 1 .. 9 : state[i] # "_" THEN "draw" ELSE NoWinner

\* addUser without the assignment of symbol O: the user keeps the symbol of
\* the room's creator.
addUserSameSymbol(g, id) ==
    IF Len(g.users) < 2
    THEN [ok |-> TRUE, game |-> [g EXCEPT !.users = Append(g.users, [id |-> id, symbol |-> "X"])]]
    ELSE [ok |-> FALSE, game |-> g]

\* addUser without the test of the number of players.
addUserNoLimit(g, id) ==
    [ok |-> TRUE, game |-> [g EXCEPT !.users = Append(g.users, [id |-> id, symbol |-> "O"])]]

\* RoomHandler.addUser: the user gets symbol O and is appended, unless the room
\* has two users.
addUser(g, id) ==
    IF Len(g.users) < 2
    THEN [ok |-> TRUE, game |-> [g EXCEPT !.users = Append(g.users, [id |-> id, symbol |-> "O"])]]
    ELSE [ok |-> FALSE, game |-> g]

\* Hydration of a room from a persisted row: the board and the players as
\* persisted, the first player X and the second O, the turn by cell parity.
loadFromDatabase(row, id) ==
    [gameId |-> id,
     users |-> [i \in 1 .. Len(row.users) |->
                   [id |-> row.users[i], symbol |-> IF i = 1 THEN "X" ELSE "O"]],
     state |-> row.state,
     currentPlayer |-> IF Filled(row.state) % 2 = 0 THEN "X" ELSE "O",
     winner |-> NoWinner,
     fresh |-> (row.state = EmptyBoard),
     accepted |-> 0]

\* ------------------------------------------------------------------ store
findFirst(code) ==
    LET hits == {i \in 1 .. Len(dbGames) : dbGames[i].gameCode = code}
    IN IF hits = {} THEN 0 ELSE CHOOSE i \in hits : \A j \in hits : i <= j

\* ---------------------------------------------------------------- events
MoveUpdated(g) ==
    [ev |-> "move-updated", to |-> "room", state |-> g.state,
     currentPlayer |-> g.currentPlayer, gameId |-> g.gameId]

GameOver(winner, g) ==
    [ev |-> "game-over", to |-> "room", winner |-> winner, state |-> g.state,
     gameId |-> g.gameId]

InvalidMove(error) == [ev |-> "invalid-move", to |-> "caller", error |-> error]

RoomJoinedFail(error) ==
    [ev |-> "room-joined", to |-> "caller", success |-> FALSE, error |-> error]

RoomJoined(g) ==
    [ev |-> "room-joined", to |-> "caller", success |-> TRUE, state |-> g.state,
     playerCount |-> Len(g.users)]

PlayerJoined(g) ==
    [ev |-> "player-joined", to |-> "room", state |-> g.state,
     playerCount |-> Len(g.users)]

\* ------------------------------------------------------------------- heap
Joins(hs) == {h \in hs : h.kind = "join"}
Moves(hs) == {h \in hs : h.kind = "move"}

Referenced(ar, hs) ==
    {ar[c] : c \in AllCodes} \cup {h.room : h \in {x \in hs : x.kind = "move"}}

\* Objects no handler and no registry entry refers to are dropped.
Collect(rs, ar, hs) ==
    [r \in RoomRefs |-> IF r \in Referenced(ar, hs) THEN rs[r] ELSE NoRoom]

FreeRef == CHOOSE r \in SpareRefs :
              rooms[r] = NoRoom /\ \A q \in SpareRefs : rooms[q] = NoRoom => r <= q

Aged(hs) == {[h EXCEPT !.lag = h.lag + 1] : h \in hs}

\* activeRooms.set(gameCode, roomHandler): the handlers that hold the room
\* installed so far keep that object, which is now at reference `to`.
Holders(hs, r) == {h \in Moves(hs) : h.room = r}

Repoint(hs, r, to) ==
    {IF h \in Holders(hs, r) THEN [h EXCEPT !.room = to] ELSE h : h \in hs}


\* ------------------------------------------------------------------- Init
Row(users, state) ==
    [gameCode |-> "A", state |-> state, winner |-> NoWinner, users |-> users,
     scores |-> [i \in DOMAIN users |-> 0]]

\* The row of a game persisted under a given code.
RowOf(gameCode, users, state) == [Row(users, state) EXCEPT !.gameCode = gameCode]

\* `at` is the reference at which the step installed a new room (0 if it
\* installed none) and `to` the reference the room it replaced moved to (0 if
\* that room was dropped, or there was none).
Idle == [op |-> "idle", events |-> <<>>, at |-> 0, to |-> 0]

Did(name, events) == [op |-> name, events |-> events, at |-> 0, to |-> 0]

\* The server has just started: no room is live.  The store holds no game, or
\* the game POST /start created, or a game with the user of POST /join that
\* an earlier run of the server persisted in mid-play.
Init ==
    /\ dbGames \in {<<>>, <<Row(<<"u1">>, EmptyBoard)>>,
                     <<Row(<<"u1", "u2">>, MidBoard)>>}
    /\ rooms = [r \in RoomRefs |-> NoRoom]
    /\ activeRooms = [c \in AllCodes |-> 0]
    /\ handlers = {}
    /\ moves = 0
    /\ out = Idle

\* -------------------------------------------------------------- make-move
\* MoveAccepted with move-updated emitted before updateDB is awaited.
MoveAcceptedEarly(gameCode, r, moveResult) ==
    /\ \A h \in handlers : h.lag < MaxLag
    /\ moves < MaxMoves
    /\ moves' = moves + 1
    /\ rooms' = [rooms EXCEPT ![r] = updateState(moveResult.game, moveResult.newState)]
    /\ handlers' = Aged(handlers) \cup
          {[kind |-> "move", code |-> gameCode, room |-> r, pc |-> "updateDB",
            gameId |-> rooms[r].gameId, newState |-> moveResult.newState,
            dState |-> moveResult.newState, winner |-> NoWinner,
            turn |-> moveResult.game.currentPlayer,
            sent |-> <<"move-updated">>, lag |-> 0]}
    /\ out' = Did("make-move",
                  <<MoveUpdated(updateState(moveResult.game, moveResult.newState))>>)

\* MoveAccepted without the call of updateState before the await.
MoveAcceptedLate(gameCode, r, moveResult) ==
    /\ \A h \in handlers : h.lag < MaxLag
    /\ moves < MaxMoves
    /\ moves' = moves + 1
    /\ rooms' = [rooms EXCEPT ![r] = moveResult.game]
    /\ handlers' = Aged(handlers) \cup
          {[kind |-> "move", code |-> gameCode, room |-> r, pc |-> "updateDB",
            gameId |-> rooms[r].gameId, newState |-> moveResult.newState,
            dState |-> moveResult.newState, winner |-> NoWinner,
            turn |-> moveResult.game.currentPlayer,
            sent |-> <<>>, lag |-> 0]}
    /\ out' = Did("make-move", <<>>)

\* The move succeeded: the room takes the new board and the handler suspends
\* at the await of updateDB, having emitted nothing yet.
MoveAccepted(gameCode, r, moveResult) ==
    /\ \A h \in handlers : h.lag < MaxLag
    /\ moves < MaxMoves
    /\ moves' = moves + 1
    /\ rooms' = [rooms EXCEPT ![r] = updateState(moveResult.game, moveResult.newState)]
    /\ handlers' = Aged(handlers) \cup
          {[kind |-> "move", code |-> gameCode, room |-> r, pc |-> "updateDB",
            gameId |-> rooms[r].gameId, newState |-> moveResult.newState,
            dState |-> moveResult.newState, winner |-> NoWinner,
            turn |-> moveResult.game.currentPlayer,
            sent |-> <<>>, lag |-> 0]}
    /\ out' = Did("make-move", <<>>)

\* MoveRejected with the error sent to the room instead of the socket.
MoveRejectedBroadcast(r, moveResult) ==
    /\ rooms' = [rooms EXCEPT ![r] = moveResult.game]
    /\ out' = Did("make-move", <<[InvalidMove(moveResult.error) EXCEPT !.to = "room"]>>)
    /\ UNCHANGED <<handlers, moves>>

\* The move failed: invalid-move goes to the calling socket.
MoveRejected(r, moveResult) ==
    /\ rooms' = [rooms EXCEPT ![r] = moveResult.game]
    /\ out' = Did("make-move", <<InvalidMove(moveResult.error)>>)
    /\ UNCHANGED <<handlers, moves>>

\* MakeMove with a room lookup that ignores the gameCode: the move goes to an
\* installed room, whichever its code.
MakeMoveAnyRoom(gameCode, position, playerId) ==
    /\ out = Idle
    /\ UNCHANGED <<dbGames, activeRooms>>
    /\ IF \A c \in AllCodes : activeRooms[c] = 0
       THEN /\ out' = Did("make-move", <<>>)
            /\ UNCHANGED <<rooms, handlers, moves>>
       ELSE LET r == activeRooms[CHOOSE c \in AllCodes :
                                   /\ activeRooms[c] # 0
                                   /\ \A d \in AllCodes : activeRooms[d] # 0 => CodeRef(d) <= CodeRef(c)]
                moveResult == makeMove(rooms[r], position, playerId)
            IN IF moveResult.success
               THEN MoveAccepted(gameCode, r, moveResult)
               ELSE MoveRejected(r, moveResult)

\* socket.on("make-move"), up to the await of updateDB.
MakeMove(gameCode, position, playerId) ==
    /\ out = Idle
    /\ UNCHANGED <<dbGames, activeRooms>>
    /\ IF activeRooms[gameCode] = 0
       THEN /\ out' = Did("make-move", <<>>)
            /\ UNCHANGED <<rooms, handlers, moves>>
       ELSE LET r == activeRooms[gameCode]
                moveResult == makeMove(rooms[r], position, playerId)
            IN IF moveResult.success
               THEN MoveAccepted(gameCode, r, moveResult)
               ELSE MoveRejected(r, moveResult)

\* The store call of updateDB: prisma.game.update({where: {id}, data: {state}}).
updateDB(games, gameId, state, ok) ==
    IF ok /\ gameId \in 1 .. Len(games)
    THEN [games EXCEPT ![gameId].state = state]
    ELSE games

\* AfterUpdateDB without the broadcast.
AfterUpdateDBSilent(g) == <<>>

\* What the handler emits when updateDB has returned, before it checks for a
\* winner: move-updated with the room's game, to the room.
AfterUpdateDB(g) == <<MoveUpdated(g)>>

Names(events) == [i \in DOMAIN events |-> events[i].ev]

\* UpdateDBReturns with the store error not caught: when the store call failed
\* the handler ends there, emitting nothing.
UpdateDBReturnsThrows(h, ok) ==
    /\ out = Idle
    /\ h \in handlers /\ h.kind = "move" /\ h.pc = "updateDB"
    /\ dbGames' = updateDB(dbGames, h.gameId, h.newState, ok)
    /\ LET g == rooms[h.room]
           winner == checkWinner(g.state)
           hs == IF ok /\ winner # NoWinner
                 THEN (handlers \ {h}) \cup
                      {[h EXCEPT !.pc = "declareResult", !.winner = winner,
                                 !.dState = g.state,
                                 !.sent = Names(AfterUpdateDB(g))]}
                 ELSE handlers \ {h}
       IN /\ out' = Did("updateDB", IF ok THEN AfterUpdateDB(g) ELSE <<>>)
          /\ handlers' = hs
          /\ rooms' = Collect(IF ok /\ winner # NoWinner
                              THEN [rooms EXCEPT ![h.room].winner = winner]
                              ELSE rooms, activeRooms, hs)
    /\ UNCHANGED <<activeRooms, moves>>

\* UpdateDBReturns with the room put back to the persisted board, and the turn
\* that goes with it, when the store call failed.
UpdateDBReturnsRollback(h, ok) ==
    /\ out = Idle
    /\ h \in handlers /\ h.kind = "move" /\ h.pc = "updateDB"
    /\ dbGames' = updateDB(dbGames, h.gameId, h.newState, ok)
    /\ LET g == IF ok THEN rooms[h.room]
                ELSE [rooms[h.room] EXCEPT
                         !.state = dbGames[h.gameId].state,
                         !.currentPlayer = IF Filled(dbGames[h.gameId].state) % 2 = 0
                                           THEN "X" ELSE "O"]
           winner == checkWinner(g.state)
           hs == IF winner # NoWinner
                 THEN (handlers \ {h}) \cup
                      {[h EXCEPT !.pc = "declareResult", !.winner = winner,
                                 !.dState = g.state,
                                 !.sent = Names(AfterUpdateDB(g))]}
                 ELSE handlers \ {h}
       IN /\ out' = Did("updateDB", AfterUpdateDB(g))
          /\ handlers' = hs
          /\ rooms' = Collect(IF winner # NoWinner
                              THEN [rooms EXCEPT ![h.room] = [g EXCEPT !.winner = winner]]
                              ELSE [rooms EXCEPT ![h.room] = g], activeRooms, hs)
    /\ UNCHANGED <<activeRooms, moves>>


\* broadcasts move-updated, checks for a winner and, if there is one, calls
\* declareResult, which sets the room's winner and suspends at its store call.
UpdateDBReturns(h, ok) ==
    /\ out = Idle
    /\ h \in handlers /\ h.kind = "move" /\ h.pc = "updateDB"
    /\ dbGames' = updateDB(dbGames, h.gameId, h.newState, ok)
    /\ LET g == rooms[h.room]
           winner == checkWinner(g.state)
           hs == IF winner # NoWinner
                 THEN (handlers \ {h}) \cup
                      {[h EXCEPT !.pc = "declareResult", !.winner = winner,
                                 !.dState = g.state,
                                 !.sent = Names(AfterUpdateDB(g))]}
                 ELSE handlers \ {h}
       IN /\ out' = Did("updateDB", AfterUpdateDB(g))
          /\ handlers' = hs
          /\ rooms' = Collect(IF winner # NoWinner
                              THEN [rooms EXCEPT ![h.room].winner = winner]
                              ELSE rooms, activeRooms, hs)
    /\ UNCHANGED <<activeRooms, moves>>

\* The store call of declareResult: update of state and winner.
declareResult(games, gameId, state, winner, ok) ==
    IF ok /\ gameId \in 1 .. Len(games)
    THEN [games EXCEPT ![gameId].state = state, ![gameId].winner = winner]
    ELSE games

\* The await of declareResult returns; the handler broadcasts game-over.
DeclareResultReturns(h, ok) ==
    /\ out = Idle
    /\ h \in handlers /\ h.kind = "move" /\ h.pc = "declareResult"
    /\ dbGames' = declareResult(dbGames, h.gameId, h.dState, h.winner, ok)
    /\ out' = Did("declareResult", <<GameOver(h.winner, rooms[h.room])>>)
    /\ handlers' = handlers \ {h}
    /\ rooms' = Collect(rooms, activeRooms, handlers \ {h})
    /\ UNCHANGED <<activeRooms, moves>>

\* -------------------------------------------------------------- join-room
\* JoinTail without the search for the user among the room's users.
JoinTailNoFind(did, gameCode, userId, rs, ar, hs) ==
    /\ activeRooms' = ar
    /\ handlers' = hs
    /\ IF ar[gameCode] = 0
       THEN /\ out' = [did EXCEPT !.events = <<RoomJoinedFail("Room not found")>>]
            /\ rooms' = Collect(rs, ar, hs)
       ELSE LET r == ar[gameCode]
                added == addUser(rs[r], userId)
            IN IF ~added.ok
               THEN /\ out' = [did EXCEPT !.events = <<RoomJoinedFail("Room is full")>>]
                    /\ rooms' = Collect([rs EXCEPT ![r] = added.game], ar, hs)
               ELSE /\ out' = [did EXCEPT !.events =
                                  <<RoomJoined(added.game), PlayerJoined(added.game)>>]
                    /\ rooms' = Collect([rs EXCEPT ![r] = added.game], ar, hs)

\* Lines 56-100 of the join-room handler: the room is looked up again, the
\* user is added unless already present, and the two events are emitted.
JoinTail(did, gameCode, userId, rs, ar, hs) ==
    /\ activeRooms' = ar
    /\ handlers' = hs
    /\ IF ar[gameCode] = 0
       THEN /\ out' = [did EXCEPT !.events = <<RoomJoinedFail("Room not found")>>]
            /\ rooms' = Collect(rs, ar, hs)
       ELSE LET r == ar[gameCode]
                existingUser == FindUser(rs[r].users, userId) # {}
                added == addUser(rs[r], userId)
            IN IF ~existingUser /\ ~added.ok
               THEN /\ out' = [did EXCEPT !.events = <<RoomJoinedFail("Room is full")>>]
                    /\ rooms' = Collect([rs EXCEPT ![r] = added.game], ar, hs)
               ELSE LET g == IF existingUser THEN rs[r] ELSE added.game
                    IN /\ out' = [did EXCEPT !.events = <<RoomJoined(g), PlayerJoined(g)>>]
                       /\ rooms' = Collect([rs EXCEPT ![r] = g], ar, hs)

\* socket.on("join-room"), up to the await of findFirst when the room is not
\* in activeRooms, to its end when it is.
\* JoinRoom held back until no make-move is awaiting the store.
JoinRoomAfterMoves(gameCode, userId) ==
    /\ out = Idle
    /\ Moves(handlers) = {}
    /\ UNCHANGED <<dbGames, moves>>
    /\ IF activeRooms[gameCode] = 0
       THEN LET j == [kind |-> "join", code |-> gameCode, userId |-> userId, lag |-> 0]
            IN /\ Cardinality(Joins(handlers)) < MaxJoins
               /\ \A h \in Joins(handlers) : ~(h.code = gameCode /\ h.userId = userId)
               /\ handlers' = handlers \cup {j}
               /\ out' = Did("join-room", <<>>)
               /\ UNCHANGED <<rooms, activeRooms>>
       ELSE JoinTail(Did("join-room", <<>>), gameCode, userId, rooms, activeRooms, handlers)

\* socket.on("join-room"), up to the await of findFirst, or to its end when the
\* room is already in activeRooms.
JoinRoom(gameCode, userId) ==
    /\ out = Idle
    /\ UNCHANGED <<dbGames, moves>>
    /\ IF activeRooms[gameCode] = 0
       THEN LET j == [kind |-> "join", code |-> gameCode, userId |-> userId, lag |-> 0]
            IN /\ Cardinality(Joins(handlers)) < MaxJoins
               /\ \A h \in Joins(handlers) : ~(h.code = gameCode /\ h.userId = userId)
               /\ handlers' = handlers \cup {j}
               /\ out' = Did("join-room", <<>>)
               /\ UNCHANGED <<rooms, activeRooms>>
       ELSE JoinTail(Did("join-room", <<>>), gameCode, userId, rooms, activeRooms, handlers)

\* LoadExistingGame without the call of loadFromDatabase: the room is as the
\* constructor made it, with its own game id and user id.
LoadExistingGameFresh(row, id) ==
    [gameId |-> 0, users |-> <<[id |-> "", symbol |-> "X"]>>,
     state |-> EmptyBoard, currentPlayer |-> "X", winner |-> NoWinner,
     fresh |-> TRUE, accepted |-> 0]

\* "Load existing game into memory": new RoomHandler(firstUser.name, gameCode),
\* then loadFromDatabase with the id, the board and the users of the game found.
LoadExistingGame(row, id) == loadFromDatabase(row, id)

\* GameNotFound with a room made by the constructor alone installed for the
\* code, as for a new game.
GameNotFoundFabricate(h, hs) ==
    JoinTail([op |-> "findFirst", events |-> <<>>, at |-> CodeRef(h.code), to |-> 0],
             h.code, h.userId,
             [rooms EXCEPT ![CodeRef(h.code)] =
                 [gameId |-> 0, users |-> <<[id |-> h.userId, symbol |-> "X"]>>,
                  state |-> EmptyBoard, currentPlayer |-> "X", winner |-> NoWinner,
                  fresh |-> TRUE, accepted |-> 0]],
             [activeRooms EXCEPT ![h.code] = CodeRef(h.code)],
             hs)

\* findFirst found no game with a user: the join is refused, to the socket,
\* and the handler returns.
GameNotFound(h, hs) ==
    /\ out' = Did("findFirst",
          <<RoomJoinedFail("Game not found. Please create or join a game first.")>>)
    /\ handlers' = hs
    /\ UNCHANGED <<rooms, activeRooms>>

\* The await of findFirst returns: the room is hydrated from the row found and
\* installed in activeRooms, or the join is refused.
FindFirstReturns(h, ok) ==
    /\ out = Idle
    /\ h \in handlers /\ h.kind = "join"
    /\ UNCHANGED <<dbGames, moves>>
    /\ LET hs == handlers \ {h}
           id == findFirst(h.code)
       IN IF ~ok
          THEN /\ out' = Did("findFirst", <<RoomJoinedFail("Failed to join room")>>)
               /\ handlers' = hs
               /\ UNCHANGED <<rooms, activeRooms>>
          ELSE IF id # 0 /\ Len(dbGames[id].users) > 0
          THEN LET r == CodeRef(h.code)
                   to == IF Holders(hs, r) = {} THEN 0 ELSE FreeRef
                   kept == IF to = 0 THEN rooms ELSE [rooms EXCEPT ![to] = rooms[r]]
               IN JoinTail([op |-> "findFirst", events |-> <<>>, at |-> r, to |-> to],
                           h.code, h.userId,
                           [kept EXCEPT ![r] = LoadExistingGame(dbGames[id], id)],
                           [activeRooms EXCEPT ![h.code] = r],
                           Repoint(hs, r, to))
          ELSE GameNotFound(h, hs)

\* ------------------------------------------------- chat-message, disconnect
ChatMessage(gameCode) ==
    /\ out = Idle
    /\ out' = Did("chat-message", <<[ev |-> "chat-message", to |-> "room"]>>)
    /\ UNCHANGED <<dbGames, rooms, activeRooms, handlers, moves>>

\* A disconnect handler that evicts the rooms from the registry.
DisconnectEvicts ==
    /\ out = Idle
    /\ out' = Did("disconnect", <<>>)
    /\ activeRooms' = [c \in AllCodes |-> 0]
    /\ UNCHANGED <<dbGames, rooms, handlers, moves>>

\* socket.on("disconnect"): the handler logs the socket id and does nothing else.
Disconnect ==
    /\ out = Idle
    /\ out' = Did("disconnect", <<>>)
    /\ UNCHANGED <<dbGames, rooms, activeRooms, handlers, moves>>

\* The handler step is over and its events have left the server.
Return ==
    /\ out # Idle
    /\ out' = Idle
    /\ UNCHANGED <<dbGames, rooms, activeRooms, handlers, moves>>

Next ==
    \/ \E c \in Codes, p \in Positions, u \in UserIds : MakeMove(c, p, u)
    \/ \E h \in handlers, ok \in BOOLEAN : UpdateDBReturns(h, ok)
    \/ \E h \in handlers, ok \in BOOLEAN : DeclareResultReturns(h, ok)
    \/ \E c \in Codes, u \in UserIds : JoinRoom(c, u)
    \/ \E h \in handlers, ok \in BOOLEAN : FindFirstReturns(h, ok)
    \/ \E c \in Codes : ChatMessage(c)
    \/ Disconnect
    \/ Return

Spec == Init /\ [][Next]_vars

\* --------------------------------------------------------------- POST /join
\* The onboarding endpoint that links a second user to a persisted game, with
\* its three awaits: findFirst, user.create, findUnique.
Response(status, body) ==
    [ev |-> "response", to |-> "caller", status |-> status, body |-> body]

Rests(hs) == {h \in hs : h.kind = "rest"}

\* randomUUID(): an id no row, room or request holds.
UsedIds ==
    UNION {{dbGames[i].users[j] : j \in DOMAIN dbGames[i].users} : i \in DOMAIN dbGames}
        \cup {h.userId : h \in Rests(handlers)}
        \cup UNION {{rooms[r].users[j].id : j \in DOMAIN rooms[r].users} :
                       r \in {q \in RoomRefs : rooms[q] # NoRoom}}

randomUUID == CHOOSE u \in UserIds \ UsedIds : TRUE

\* app.post("/join"), up to the await of findFirst.
PostJoin(gameCode) ==
    /\ out = Idle
    /\ Cardinality(Rests(handlers)) < MaxRest
    /\ LET n == CHOOSE k \in 1 .. MaxRest : \A h \in Rests(handlers) : h.n # k
       IN handlers' = handlers \cup
             {[kind |-> "rest", code |-> gameCode, n |-> n, pc |-> "findFirst",
               gameId |-> 0, userId |-> "", lag |-> 0]}
    /\ out' = Did("POST /join", <<>>)
    /\ UNCHANGED <<dbGames, rooms, activeRooms, moves>>

\* The await of findFirst returns: 404 if there is no game, 400 if the game
\* read has two users, else the handler suspends at user.create.
PostJoinFindFirstReturns(h, ok) ==
    /\ out = Idle
    /\ h \in handlers /\ h.kind = "rest" /\ h.pc = "findFirst"
    /\ UNCHANGED <<dbGames, rooms, activeRooms, moves>>
    /\ LET id == findFirst(h.code)
           hs == handlers \ {h}
       IN IF ~ok
          THEN /\ out' = Did("POST /join", <<Response(500, "Failed to join game")>>)
               /\ handlers' = hs
          ELSE IF id = 0
          THEN /\ out' = Did("POST /join", <<Response(404, "Game not found")>>)
               /\ handlers' = hs
          ELSE IF Len(dbGames[id].users) >= 2
          THEN /\ out' = Did("POST /join", <<Response(400, "Game is full")>>)
               /\ handlers' = hs
          ELSE /\ UserIds \ UsedIds # {}
               /\ out' = Did("POST /join", <<>>)
               /\ handlers' = hs \cup
                     {[h EXCEPT !.pc = "create", !.gameId = id, !.userId = randomUUID]}

\* prisma.user.create({data: {id, name, gameId}}).
userCreate(games, gameId, userId, ok) ==
    IF ok THEN [games EXCEPT ![gameId].users = Append(games[gameId].users, userId),
                             ![gameId].scores = Append(games[gameId].scores, 0)]
    ELSE games

\* The await of user.create returns; the handler suspends at findUnique.
UserCreateReturns(h, ok) ==
    /\ out = Idle
    /\ h \in handlers /\ h.kind = "rest" /\ h.pc = "create"
    /\ dbGames' = userCreate(dbGames, h.gameId, h.userId, ok)
    /\ IF ok
       THEN /\ out' = Did("POST /join", <<>>)
            /\ handlers' = (handlers \ {h}) \cup {[h EXCEPT !.pc = "findUnique"]}
       ELSE /\ out' = Did("POST /join", <<Response(500, "Failed to join game")>>)
            /\ handlers' = handlers \ {h}
    /\ UNCHANGED <<rooms, activeRooms, moves>>

\* The await of findUnique returns; the response carries the joining user
\* with symbol O and the users of the game, the first X and the others O.
FindUniqueReturns(h, ok) ==
    /\ out = Idle
    /\ h \in handlers /\ h.kind = "rest" /\ h.pc = "findUnique"
    /\ handlers' = handlers \ {h}
    /\ out' = Did("POST /join",
          <<IF ok
            THEN Response(200,
                   [user |-> [id |-> h.userId, symbol |-> "O"],
                    users |-> [i \in 1 .. Len(dbGames[h.gameId].users) |->
                                 [id |-> dbGames[h.gameId].users[i],
                                  symbol |-> IF i = 1 THEN "X" ELSE "O"]]])
            ELSE Response(500, "Failed to join game")>>)
    /\ UNCHANGED <<dbGames, rooms, activeRooms, moves>>

\* Onboarding and joining: POST /join and join-room.
NextRest ==
    \/ \E c \in Codes : PostJoin(c)
    \/ \E h \in handlers, ok \in BOOLEAN : PostJoinFindFirstReturns(h, ok)
    \/ \E h \in handlers, ok \in BOOLEAN : UserCreateReturns(h, ok)
    \/ \E h \in handlers, ok \in BOOLEAN : FindUniqueReturns(h, ok)
    \/ \E c \in Codes, u \in UserIds : JoinRoom(c, u)
    \/ \E h \in handlers, ok \in BOOLEAN : FindFirstReturns(h, ok)
    \/ Return

RestSpec == Init /\ [][NextRest]_vars

\* -------------------------------------------------------------- POST /start
\* generateGameCode(): six characters drawn at random, with no lookup of the
\* codes already persisted; any code may come out.
generateGameCode == AllCodes

\* app.post("/start"), up to the await of game.create: the code and the user
\* id are drawn before the store is called.
PostStart(gameCode) ==
    /\ out = Idle
    /\ gameCode \in generateGameCode
    /\ Cardinality(Rests(handlers)) < MaxRest
    /\ UserIds \ UsedIds # {}
    /\ LET n == CHOOSE k \in 1 .. MaxRest : \A h \in Rests(handlers) : h.n # k
       IN handlers' = handlers \cup
             {[kind |-> "rest", code |-> gameCode, n |-> n, pc |-> "gameCreate",
               gameId |-> 0, userId |-> randomUUID, lag |-> 0]}
    /\ out' = Did("POST /start", <<>>)
    /\ UNCHANGED <<dbGames, rooms, activeRooms, moves>>

\* prisma.game.create({data: {id, state, gameCode, roomUrl, users: {create}}}):
\* the store acknowledges the new game, with the empty board and its one user.
gameCreate(games, gameCode, userId, ok) ==
    IF ok THEN Append(games, RowOf(gameCode, <<userId>>, EmptyBoard)) ELSE games

\* The await of game.create returns: the response carries the game and its
\* user with symbol X, or 500 if the store threw.
GameCreateReturns(h, ok) ==
    /\ out = Idle
    /\ h \in handlers /\ h.kind = "rest" /\ h.pc = "gameCreate"
    /\ dbGames' = gameCreate(dbGames, h.code, h.userId, ok)
    /\ handlers' = handlers \ {h}
    /\ out' = Did("POST /start",
          <<IF ok
            THEN Response(200,
                   [user |-> [id |-> h.userId, symbol |-> "X"],
                    gameCode |-> h.code, state |-> EmptyBoard, currentPlayer |-> "X"])
            ELSE Response(500, "Failed to create game")>>)
    /\ UNCHANGED <<rooms, activeRooms, moves>>

\* Game creation and the lookup by code: POST /start and join-room.
NextStart ==
    \/ \E c \in AllCodes : PostStart(c)
    \/ \E h \in handlers, ok \in BOOLEAN : GameCreateReturns(h, ok)
    \/ \E c \in Codes, u \in UserIds : JoinRoom(c, u)
    \/ \E h \in handlers, ok \in BOOLEAN : FindFirstReturns(h, ok)
    \/ Return

StartSpec == Init /\ [][NextStart]_vars

\* ------------------------------------------------------------- checkWinner
\* checkWinner on every board: a game persisted with any board of nine cells
\* over _, X and O has been hydrated, and checkWinner is called on the room.
Boards == [1 .. 9 -> {"_", "X", "O"}]

BoardInit ==
    /\ \E b \in Boards :
          /\ dbGames = <<Row(<<"u1", "u2">>, b)>>
          /\ rooms = [r \in RoomRefs |->
                        IF r = CodeRef("A")
                        THEN LoadExistingGame(Row(<<"u1", "u2">>, b), 1)
                        ELSE NoRoom]
    /\ activeRooms = [c \in AllCodes |-> IF c = "A" THEN CodeRef("A") ELSE 0]
    /\ handlers = {}
    /\ moves = 0
    /\ out = Idle

\* room.checkWinner(), as at line 133 of the make-move handler.
CheckWinnerCalled(gameCode) ==
    /\ out = Idle
    /\ activeRooms[gameCode] # 0
    /\ out' = Did("checkWinner",
          <<[ev |-> "winner", to |-> "caller",
             winner |-> checkWinner(rooms[activeRooms[gameCode]].state)]>>)
    /\ UNCHANGED <<dbGames, rooms, activeRooms, handlers, moves>>

BoardNext ==
    \/ \E c \in Codes : CheckWinnerCalled(c)
    \/ Return

BoardSpec == BoardInit /\ [][BoardNext]_vars

\* ---------------------------------------------------------------- two rooms
\* Two games are persisted, one per code, and the handlers are addressed to
\* either code.
TwoInit ==
    /\ dbGames = <<RowOf("A", <<"u1", "u2">>, EmptyBoard),
                   RowOf("B", <<"u2", "u3">>, MidBoard)>>
    /\ rooms = [r \in RoomRefs |-> NoRoom]
    /\ activeRooms = [c \in AllCodes |-> 0]
    /\ handlers = {}
    /\ moves = 0
    /\ out = Idle

\* A cell occupied in one game and empty in the other, and a cell empty in both.
TwoPositions == {0, 8}
\* The users that join over the socket: one in both games, one in game A only.
TwoJoiners == {"u1", "u2"}

NextTwo ==
    \/ \E c \in AllCodes, p \in TwoPositions, u \in UserIds : MakeMove(c, p, u)
    \/ \E h \in handlers, ok \in BOOLEAN : UpdateDBReturns(h, ok)
    \/ \E h \in handlers, ok \in BOOLEAN : DeclareResultReturns(h, ok)
    \/ \E c \in AllCodes, u \in TwoJoiners : JoinRoom(c, u)
    \/ \E h \in handlers, ok \in BOOLEAN : FindFirstReturns(h, ok)
    \/ \E c \in AllCodes : ChatMessage(c)
    \/ Return

TwoSpec == TwoInit /\ [][NextTwo]_vars

\* ------------------------------------------------------------- fair store
\* The socket handlers with every store call returning in the end, resolved
\* or rejected, and every handler step running to its end.  A store return is
\* handled only between two handler steps, so it is enabled again and again
\* rather than continuously.
\* "XOXXOOOX_": a board with one empty cell and no line, X to move.
LastCellBoard == <<"X", "O", "X", "X", "O", "O", "O", "X", "_">>

\* An occupied cell and two cells that are empty in MidBoard: 5 completes a
\* line of O there, 8 a line of X, and 8 fills LastCellBoard without a line.
LivePositions == {0, 5, 8}

\* A game in mid-play is persisted, one or three moves from its end.
LiveInit ==
    /\ dbGames \in {<<Row(<<"u1", "u2">>, MidBoard)>>,
                     <<Row(<<"u1", "u2">>, LastCellBoard)>>}
    /\ rooms = [r \in RoomRefs |-> NoRoom]
    /\ activeRooms = [c \in AllCodes |-> 0]
    /\ handlers = {}
    /\ moves = 0
    /\ out = Idle

NextLive ==
    \/ \E c \in Codes, p \in LivePositions, u \in UserIds : MakeMove(c, p, u)
    \/ \E h \in handlers, ok \in BOOLEAN : UpdateDBReturns(h, ok)
    \/ \E h \in handlers, ok \in BOOLEAN : DeclareResultReturns(h, ok)
    \/ \E c \in Codes, u \in UserIds : JoinRoom(c, u)
    \/ \E h \in handlers, ok \in BOOLEAN : FindFirstReturns(h, ok)
    \/ \E c \in Codes : ChatMessage(c)
    \/ Disconnect
    \/ Return

LiveSpec ==
    /\ LiveInit
    /\ [][NextLive]_vars
    /\ WF_vars(Return)
    /\ SF_vars(\E h \in handlers, ok \in BOOLEAN : UpdateDBReturns(h, ok))
    /\ SF_vars(\E h \in handlers, ok \in BOOLEAN : DeclareResultReturns(h, ok))

\* ------------------------------------------------------ store never fails
\* The socket handlers with every store call resolving: no checkpoint, outcome
\* write or lookup fails.
NextOk ==
    \/ \E c \in Codes, p \in Positions, u \in UserIds : MakeMove(c, p, u)
    \/ \E h \in handlers : UpdateDBReturns(h, TRUE)
    \/ \E h \in handlers : DeclareResultReturns(h, TRUE)
    \/ \E c \in Codes, u \in UserIds : JoinRoom(c, u)
    \/ \E h \in handlers : FindFirstReturns(h, TRUE)
    \/ Return

OkSpec == Init /\ [][NextOk]_vars

\* ================================================================= claims
\* The reference, after the step, of the room object that is at r before it
\* (0 if the step dropped the object).
After(r) ==
    IF out'.at = r THEN out'.to
    ELSE IF rooms'[r] = NoRoom THEN 0 ELSE r

Live(r) == rooms[r] # NoRoom

Installed(c) == activeRooms[c] # 0

Events(o) == {o.events[i] : i \in DOMAIN o.events}

\* C1: in every room object hydrated from the empty board (turn X), after n
\* accepted moves, whatever was rejected in between, the turn is X if n is
\* even and O if n is odd.
C1_TurnAlternates ==
    \A r \in RoomRefs :
        Live(r) /\ rooms[r].fresh =>
            rooms[r].currentPlayer = IF rooms[r].accepted % 2 = 0 THEN "X" ELSE "O"

\* A fresh room has accepted two moves and has just rejected a third.
C1_Witness ==
    /\ Installed("A") /\ rooms[CodeRef("A")].fresh /\ rooms[CodeRef("A")].accepted = 2
    /\ out.op = "make-move" /\ out.events # <<>>

\* C2: once a live room has recorded its outcome (a move completed a winning
\* line or filled the board, and declareResult set the winner), every
\* make-move on it is rejected with an error to the caller and leaves the
\* board and the turn unchanged.
C2_NoMoveAfterOutcome ==
    [][\A c \in Codes, p \in Positions, u \in UserIds :
          (/\ Installed(c)
           /\ rooms[activeRooms[c]].winner # NoWinner
           /\ checkWinner(rooms[activeRooms[c]].state) # NoWinner
           /\ out'.op = "make-move"
           /\ MakeMove(c, p, u))
          => /\ Names(out'.events) = <<"invalid-move">>
             /\ rooms'[activeRooms[c]].state = rooms[activeRooms[c]].state
             /\ rooms'[activeRooms[c]].currentPlayer = rooms[activeRooms[c]].currentPlayer]_vars

\* C3: the winner of a room object, and the winner persisted for a game,
\* never changes once it is X, O or draw.
C3_OutcomeImmutable ==
    [][/\ \A r \in RoomRefs :
             Live(r) /\ rooms[r].winner # NoWinner /\ After(r) # 0
                => rooms'[After(r)].winner = rooms[r].winner
       /\ \A i \in DOMAIN dbGames :
             dbGames[i].winner # NoWinner => dbGames'[i].winner = dbGames[i].winner]_vars

\* C4: a make-move by a player of the room whose symbol is not the current
\* turn is rejected with "Not your turn", for every position.
C4_NotYourTurnFirst ==
    [][\A c \in Codes, p \in Positions, u \in UserIds :
          (/\ Installed(c)
           /\ \E i \in FindUser(rooms[activeRooms[c]].users, u) :
                 rooms[activeRooms[c]].users[i].symbol # rooms[activeRooms[c]].currentPlayer
           /\ MakeMove(c, p, u))
          => out'.events = <<InvalidMove("Not your turn")>>]_vars

\* C5: a cell of a room object that holds X or O holds the same symbol after
\* every step, and in every reachable state makeMove fails on every occupied
\* cell of the live room, whoever the player is.
C5_CellsKept ==
    /\ [][\A r \in RoomRefs :
             Live(r) /\ After(r) # 0 /\ rooms'[After(r)].state # rooms[r].state
                => \A i \in 1 .. 9 :
                      rooms[r].state[i] # "_" => rooms'[After(r)].state[i] = rooms[r].state[i]]_vars
    /\ [](\A c \in Codes, p \in Positions \cap (0 .. 8), u \in UserIds :
             Installed(c) /\ rooms[activeRooms[c]].state[p + 1] # "_"
                => ~makeMove(rooms[activeRooms[c]], p, u).success)

\* A move has just been rejected because its cell is occupied.
C5_Witness ==
    /\ out.events = <<InvalidMove("Position already occupied")>>
    /\ Installed("A") /\ rooms[CodeRef("A")].accepted >= 1

\* The step was a make-move or a join-room that was refused.
Refused(o) ==
    /\ o.op \in {"make-move", "join-room", "findFirst"}
    /\ \E e \in Events(o) :
          \/ e.ev = "invalid-move"
          \/ e.ev = "room-joined" /\ ~e.success

C7_EveryMoveAnswered ==
    [][\A c \in Codes, p \in Positions, u \in UserIds :
          MakeMove(c, p, u)
             => \/ moves' = moves + 1
                \/ Names(out'.events) = <<"invalid-move">>]_vars

\* C8: a handler emits game-over only after it has emitted move-updated, and
\* the winner game-over carries is X, O or draw.
C8_MoveUpdatedBeforeGameOver ==
    [][\A e \in Events(out') :
          e.ev = "game-over"
             => /\ e.winner \in {"X", "O", "draw"}
                /\ \E h \in Moves(handlers) \ handlers' :
                      /\ h.pc = "declareResult"
                      /\ h.sent = <<"move-updated">>
                      /\ h.winner = e.winner]_vars

\* game-over has just been broadcast.
C8_Witness ==
    \E e \in Events(out) : e.ev = "game-over" /\ e.winner = "draw"

\* C9: a step emits move-updated only if in that step a handler's await of
\* updateDB returns, with success or with failure.
C9_BroadcastAfterCheckpoint ==
    [][\A e \in Events(out') :
          e.ev = "move-updated"
             => /\ out'.op = "updateDB"
                /\ \E h \in Moves(handlers) \ handlers' :
                      h.pc = "updateDB" /\ rooms[h.room].state = e.state]_vars

\* move-updated has just been broadcast after a checkpoint that failed.
C9_Witness ==
    /\ \E e \in Events(out) : e.ev = "move-updated" /\ dbGames[e.gameId].state # e.state
    /\ out.op = "updateDB"

\* C10: the board carried by a move-updated or game-over broadcast is the board
\* the store holds for the game when the event is emitted.
C10_BroadcastIsDurable ==
    \A e \in Events(out) :
        e.ev \in {"move-updated", "game-over"} => dbGames[e.gameId].state = e.state

\* C11: when the store call of an accepted move's updateDB fails, the step in
\* which the await returns emits no move-updated.
C11_NoBroadcastOnFailedCheckpoint ==
    [][\A h \in handlers :
          (/\ h.kind = "move" /\ h.pc = "updateDB"
           /\ dbGames[h.gameId].state # h.newState
           /\ UpdateDBReturns(h, FALSE))
          => \A e \in Events(out') : e.ev # "move-updated"]_vars

\* The handlers for a code that have started and have not finished.
InFlight(c) == {h \in handlers : h.code = c}

\* C12: for every code, at most one make-move or join-room handler is in
\* flight at any time.
C12_OneMutationInFlight ==
    \A c \in Codes : Cardinality(InFlight(c)) <= 1

\* C13: the move-updated a handler emits carries the board and the turn its
\* own move produced, whatever other moves the room has accepted meanwhile.
C13_BroadcastIsOwnMove ==
    [][\A e \in Events(out') :
          e.ev = "move-updated"
             => \E h \in Moves(handlers) \ handlers' :
                   /\ h.pc = "updateDB"
                   /\ e.state = h.newState
                   /\ e.currentPlayer = h.turn]_vars

\* The cells in which two boards differ.
Written(old, new) == {i \in 1 .. 9 : old[i] # new[i]}

\* C14: between any two consecutive states (the points at which another
\* handler can run) the turn of a room object has flipped if and only if one
\* cell of its board has been written, and that cell was empty and holds the
\* symbol whose turn it was.
C14_NoHalfAppliedMove ==
    [][\A r \in RoomRefs :
          Live(r) /\ After(r) # 0 /\ rooms'[After(r)] # rooms[r]
             => LET old == rooms[r]
                    new == rooms'[After(r)]
                IN /\ new.currentPlayer # old.currentPlayer
                      <=> Cardinality(Written(old.state, new.state)) = 1
                   /\ \A i \in Written(old.state, new.state) :
                         old.state[i] = "_" /\ new.state[i] = old.currentPlayer]_vars

\* A make-move handler has just suspended at the await of updateDB: the room
\* holds its board and its turn.
C14_Witness ==
    /\ out.op = "make-move"
    /\ \E h \in Moves(handlers) :
          /\ h.pc = "updateDB" /\ h.lag = 0
          /\ rooms[h.room].state = h.newState
          /\ rooms[h.room].currentPlayer = h.turn
          /\ Filled(h.newState) >= 1

\* C15: every room object holds at most two players, with distinct ids and
\* distinct symbols.
C15_AtMostTwoPlayers ==
    \A r \in RoomRefs :
        Live(r) =>
            /\ Len(rooms[r].users) <= 2
            /\ \A i, j \in DOMAIN rooms[r].users :
                  i # j => /\ rooms[r].users[i].id # rooms[r].users[j].id
                           /\ rooms[r].users[i].symbol # rooms[r].users[j].symbol

\* The ids of the players of a room, in order.
Ids(users) == [i \in DOMAIN users |-> users[i].id]

C21_OneRoomPerCode ==
    [][\A c \in AllCodes :
          Installed(c) => activeRooms'[c] = activeRooms[c] /\ out'.at # CodeRef(c)]_vars

\* C22: the store links at most two users to a game.
C22_AtMostTwoUsersLinked ==
    \A i \in DOMAIN dbGames : Len(dbGames[i].users) <= 2

\* The score the store holds for the user of a game that plays a symbol (the
\* first user plays X, the second O), 0 if the game has no such user.
ScoreOf(games, gameId, symbol) ==
    LET i == IF symbol = "X" THEN 1 ELSE 2
    IN IF i \in DOMAIN games[gameId].scores THEN games[gameId].scores[i] ELSE 0

\* C23: when declareResult records a win for a game that had no winner
\* recorded, the score of the winner's user goes up by exactly 1; when it
\* records a draw, or records the winner already recorded, no score changes.
C23_ScoreOncePerWin ==
    [][\A h \in Moves(handlers) :
          (/\ h.pc = "declareResult"
           /\ out'.op = "declareResult"
           /\ DeclareResultReturns(h, TRUE))
          => IF h.winner \in Symbols /\ dbGames[h.gameId].winner = NoWinner
             THEN ScoreOf(dbGames', h.gameId, h.winner)
                     = ScoreOf(dbGames, h.gameId, h.winner) + 1
             ELSE h.winner \in {"draw", dbGames[h.gameId].winner}
                     => dbGames'[h.gameId].scores = dbGames[h.gameId].scores]_vars

\* The three rows, the three columns and the two diagonals, as sets of cells
\* 0 .. 8.
Rows == {{3 * r, 3 * r + 1, 3 * r + 2} : r \in 0 .. 2}
Columns == {{c, c + 3, c + 6} : c \in 0 .. 2}
Diagonals == {{0, 4, 8}, {2, 4, 6}}
Lines == Rows \cup Columns \cup Diagonals

\* The board with symbol s in the cells of a line and all other cells empty.
LineBoard(line, s) == [i \in 1 .. 9 |-> IF (i - 1) \in line THEN s ELSE "_"]

\* C24: for each of the eight lines and each symbol, checkWinner on the board
\* that holds the symbol in exactly the cells of the line returns the symbol.
C24_EveryLineDetected ==
    \A line \in Lines, s \in Symbols :
        out.op = "checkWinner" /\ rooms[CodeRef("A")].state = LineBoard(line, s)
            => out.events[1].winner = s

\* checkWinner has returned O on the board with O on the diagonal 2-4-6 only.
C24_Witness ==
    /\ out.op = "checkWinner"
    /\ rooms[CodeRef("A")].state = LineBoard({2, 4, 6}, "O")
    /\ out.events[1].winner = "O"

\* The symbols that hold all three cells of some line of a board.
LineSymbols(state) ==
    {s \in Symbols : \E line \in Lines : \A c \in line : state[c + 1] = s}

\* C25: on every board checkWinner returns draw exactly when no line is held
\* and no cell is empty, null exactly when no line is held and some cell is
\* empty, and the symbol of a held line when there is one, full board or not.
C25_DrawOnlyWithoutLine ==
    out.op = "checkWinner"
        => LET state == rooms[CodeRef("A")].state
               full == \A i \in 1 .. 9 : state[i] # "_"
               w == out.events[1].winner
           IN /\ w = "draw" <=> (LineSymbols(state) = {} /\ full)
              /\ w = NoWinner <=> (LineSymbols(state) = {} /\ ~full)
              /\ LineSymbols(state) # {} => w \in LineSymbols(state)

\* checkWinner has returned X on a full board that holds a line of X.
C25_Witness ==
    /\ out.op = "checkWinner"
    /\ rooms[CodeRef("A")].state = <<"X", "X", "X", "O", "O", "X", "X", "O", "O">>
    /\ out.events[1].winner = "X"

\* C26: a disconnect changes no room object and no registry entry: every
\* room keeps its players, board, turn and outcome, every gameCode keeps its
\* room, and the persisted games are as before, so that each player of a room
\* is still found in it afterwards.
C26_DisconnectChangesNothing ==
    [][out'.op = "disconnect"
        => /\ rooms' = rooms
           /\ activeRooms' = activeRooms
           /\ dbGames' = dbGames
           /\ \A c \in AllCodes :
                 Installed(c)
                    => \A i \in DOMAIN rooms[activeRooms[c]].users :
                          /\ activeRooms'[c] # 0
                          /\ FindUser(rooms'[activeRooms'[c]].users,
                                      rooms[activeRooms[c]].users[i].id) # {}]_vars

\* A disconnect has happened while a room with two players and a started
\* board was installed.
C26_Witness ==
    /\ out.op = "disconnect"
    /\ Installed("A")
    /\ Len(rooms[activeRooms["A"]].users) = 2
    /\ rooms[activeRooms["A"]].state # EmptyBoard
    /\ rooms[activeRooms["A"]].winner = NoWinner

\* The step is a join-room, make-move or chat-message handler addressed to
\* gameCode a, or the continuation of such a handler after one of its awaits.
Addressed(a) ==
    \/ out'.op = "make-move" /\ \E p \in TwoPositions, u \in UserIds : MakeMove(a, p, u)
    \/ out'.op = "join-room" /\ \E u \in TwoJoiners : JoinRoom(a, u)
    \/ ChatMessage(a)
    \/ \E h \in handlers, ok \in BOOLEAN :
          /\ h.code = a
          /\ \/ out'.op = "updateDB" /\ UpdateDBReturns(h, ok)
             \/ out'.op = "declareResult" /\ DeclareResultReturns(h, ok)
             \/ out'.op = "findFirst" /\ FindFirstReturns(h, ok)

\* The room objects of gameCode b: the one installed and those that handlers
\* of b still hold.
ObjectsOf(b) ==
    ({activeRooms[b]} \ {0}) \cup {h.room : h \in {x \in Moves(handlers) : x.code = b}}

\* C27: a step of a handler addressed to gameCode a leaves the registry entry
\* of every other gameCode b and every room object of b (players, board, turn
\* and outcome) as they were, whatever handlers are in flight.
C27_RoomsIndependent ==
    [][\A a \in AllCodes : \A b \in AllCodes \ {a} :
          \/ /\ activeRooms'[b] = activeRooms[b]
             /\ \A r \in ObjectsOf(b) : rooms'[r] = rooms[r]
          \/ ~Addressed(a)]_vars

\* A move on A has just been accepted while B's room is installed with a move
\* of its own awaiting its checkpoint.
C27_Witness ==
    /\ out.op = "make-move"
    /\ Installed("A") /\ Installed("B")
    /\ \E h \in Moves(handlers) : h.code = "A" /\ h.pc = "updateDB" /\ h.lag = 0
    /\ \E h \in Moves(handlers) : h.code = "B" /\ h.pc = "updateDB" /\ h.lag > 0
    /\ rooms[activeRooms["B"]].state # MidBoard

\* C28: no two persisted games hold the same gameCode, so that a lookup by
\* gameCode finds at most one game.
C28_GameCodesUnique ==
    \A i \in DOMAIN dbGames : \A j \in DOMAIN dbGames :
        i # j => dbGames[i].gameCode # dbGames[j].gameCode

\* The make-move handlers awaiting updateDB on the room installed for a code.
Pending(c) ==
    {h \in Moves(handlers) : h.room = activeRooms[c] /\ h.pc = "updateDB"}

\* The ids of the players of the room installed for a code.
Players(c) ==
    {rooms[activeRooms[c]].users[i].id : i \in DOMAIN rooms[activeRooms[c]].users}

\* C29: while a make-move on the installed room awaits its checkpoint, the
\* join-room of a player already in the room can run as soon as the server is
\* idle, and when it runs it emits room-joined success in that same step and
\* leaves the make-move awaiting.
C29_ReconnectNotSerialized ==
    /\ [](\A c \in Codes : \A u \in UserIds :
            (out = Idle /\ Installed(c) /\ Pending(c) # {} /\ u \in Players(c))
                => ENABLED JoinRoom(c, u))
    /\ [][\A c \in Codes : \A u \in UserIds :
            (/\ out'.op = "join-room"
             /\ Installed(c) /\ Pending(c) # {} /\ u \in Players(c)
             /\ JoinRoom(c, u))
            => /\ \E e \in Events(out') : e.ev = "room-joined" /\ e.success
               /\ \A h \in Pending(c) : h \in handlers']_vars

\* A player of a full room has rejoined with success while a make-move on
\* that room still awaits updateDB.
C29_Witness ==
    /\ out.op = "join-room"
    /\ \E e \in Events(out) : e.ev = "room-joined" /\ e.success
    /\ Installed("A") /\ Pending("A") # {}
    /\ Len(dbGames[1].users) = 2
    /\ Len(rooms[activeRooms["A"]].users) = 2

\* The symbol of a player in a room: that of the first user with the id.
SymbolOf(g, playerId) ==
    g.users[CHOOSE i \in FindUser(g.users, playerId) :
               \A j \in FindUser(g.users, playerId) : i <= j].symbol

\* C30: a move of player p at position k that makeMove accepts on the room in
\* activeRooms, when the make-move handler can call it,
\* finds cell k empty and p's symbol equal to the turn, and returns the board
\* with p's symbol in cell k and the other eight cells as they were, with the
\* turn flipped; and the step of the make-move handler that accepts a move
\* changes exactly one cell of the room's board, from empty to the turn
\* before the move, flips the room's turn and hands that board to updateDB.
C30_AcceptedMoveEffect ==
    /\ [](\A c \in Codes : \A p \in Positions : \A u \in UserIds :
            (out = Idle /\ Installed(c) /\ makeMove(rooms[activeRooms[c]], p, u).success)
                => LET old == rooms[activeRooms[c]]
                       res == makeMove(rooms[activeRooms[c]], p, u)
                   IN /\ old.state[p + 1] = "_"
                      /\ SymbolOf(old, u) = old.currentPlayer
                      /\ res.newState[p + 1] = SymbolOf(old, u)
                      /\ \A j \in (1 .. 9) \ {p + 1} : res.newState[j] = old.state[j]
                      /\ res.game.currentPlayer = Other(old.currentPlayer))
    /\ [][moves' = moves + 1
            => \A h \in Moves(handlers') :
                  (h.lag = 0 /\ h.pc = "updateDB")
                     => LET old == rooms[h.room]
                            new == rooms'[h.room]
                        IN /\ \E k \in 1 .. 9 :
                                /\ old.state[k] = "_"
                                /\ new.state[k] = old.currentPlayer
                                /\ \A j \in (1 .. 9) \ {k} : new.state[j] = old.state[j]
                           /\ new.currentPlayer = Other(old.currentPlayer)
                           /\ h.newState = new.state]_vars

\* From the empty board X has moved at 0 and O has just moved at 4: the board
\* is X___O____ and the turn is X.
C30_Witness ==
    /\ out.op = "make-move"
    /\ Installed("A")
    /\ rooms[activeRooms["A"]].state = <<"X", "_", "_", "_", "O", "_", "_", "_", "_">>
    /\ rooms[activeRooms["A"]].currentPlayer = "X"
    /\ rooms[activeRooms["A"]].accepted = 2
    /\ \E h \in Moves(handlers) : h.lag = 0 /\ h.pc = "updateDB"

\* C31: when the await of updateDB returns with the store call failed, the
\* store is as before and the room object the handler holds is not rolled
\* back: its board, with the moved cell set, and its turn are as before the
\* step, the turn being the one the move flipped to if no later move was
\* accepted on that object; and if its board differed from the persisted
\* board before the step, it differs after it.
C31_NoRollbackOnFailedCheckpoint ==
    [][\A h \in Moves(handlers) :
          (/\ h.pc = "updateDB" /\ out'.op = "updateDB"
           /\ UpdateDBReturns(h, FALSE))
          => /\ dbGames' = dbGames
             /\ After(h.room) # 0
                  => LET old == rooms[h.room]
                         new == rooms'[After(h.room)]
                     IN /\ new.state = old.state
                        /\ new.currentPlayer = old.currentPlayer
                        /\ \A i \in 1 .. 9 : h.newState[i] # "_" => new.state[i] = h.newState[i]
                        /\ old.state = h.newState => new.currentPlayer = h.turn
                        /\ dbGames[h.gameId].state # old.state
                             => dbGames'[h.gameId].state # new.state]_vars

\* The checkpoint of the only move of a room hydrated from the board in
\* mid-play has failed: the room holds the move and the store does not.
C31_Witness ==
    /\ out.op = "updateDB"
    /\ Installed("A")
    /\ Moves(handlers) = {}
    /\ rooms[activeRooms["A"]].accepted = 1
    /\ dbGames[1].state = MidBoard
    /\ rooms[activeRooms["A"]].state # MidBoard
    /\ rooms[activeRooms["A"]].currentPlayer = "O"

\* C32: with no store call failing, whenever no make-move handler of the game
\* is suspended at its checkpoint or its outcome write, the persisted board of
\* the game equals the board of the room installed for it, the room on which
\* every move so far was accepted.
C32_StoreIsWriteThroughCopy ==
    \A c \in Codes :
        (/\ Installed(c)
         /\ rooms[activeRooms[c]].accepted = moves
         /\ \A h \in Moves(handlers) : h.gameId # rooms[activeRooms[c]].gameId)
        => dbGames[rooms[activeRooms[c]].gameId].state = rooms[activeRooms[c]].state

\* C33: a make-move on an installed room with fewer than two players is
\* rejected: no move is accepted, invalid-move goes to the caller, and the
\* board and the turn of the room stay as they were.
C33_NoMoveWhileWaiting ==
    [][\A c \in Codes :
          (/\ Installed(c)
           /\ Len(rooms[activeRooms[c]].users) < 2
           /\ out'.op = "make-move")
          => /\ moves' = moves
             /\ \E e \in Events(out') : e.ev = "invalid-move"
             /\ rooms'[activeRooms[c]].state = rooms[activeRooms[c]].state
             /\ rooms'[activeRooms[c]].currentPlayer = rooms[activeRooms[c]].currentPlayer]_vars

\* The handlers that this step has brought to the store call of declareResult.
Declaring == {h \in Moves(handlers') \ handlers : h.pc = "declareResult"}

\* C34: declareResult is executed at most once on a room, and so game-over,
\* which each execution is followed by, is broadcast at most once: whenever a
\* handler calls declareResult, which records the winner in the room before
\* its store call, the room has no winner recorded yet.
C34_OutcomeDeclaredOnce ==
    [][out'.op = "updateDB"
          => \A h \in Declaring : rooms[h.room].winner = NoWinner]_vars

\* The make-move handlers of a room object still awaiting updateDB whose own
\* move left a board with an outcome, and the earliest of them: the handler
\* of the move that first completed a line or filled the board.
Deciding(r) ==
    {h \in Moves(handlers) :
        h.room = r /\ h.pc = "updateDB" /\ checkWinner(h.newState) # NoWinner}

FirstDeciding(r) ==
    CHOOSE h \in Deciding(r) :
        \A g \in Deciding(r) : Filled(h.newState) <= Filled(g.newState)

\* C35: when declareResult is first called on a room, the winner it is given,
\* which it stores and the game-over broadcast announces, is the outcome of
\* the board as the earliest deciding move left it: the symbol of the player
\* who first completed a line, or draw.
C35_WinnerIsFirstToComplete ==
    [][out'.op = "updateDB"
          => \A h \in Declaring :
                (rooms[h.room].winner = NoWinner /\ Deciding(h.room) # {})
                   => h.winner = checkWinner(FirstDeciding(h.room).newState)]_vars

\* C36: no board of a room holds a completed line of X and a completed line
\* of O at the same time.
C36_NoTwoWinners ==
    \A r \in RoomRefs : Live(r) => Cardinality(LineSymbols(rooms[r].state)) <= 1

\* The number of cells of a board that hold a symbol.
Count(state, s) == Cardinality({i \in 1 .. 9 : state[i] = s})

\* C37: in every room object hydrated from the empty board, the X cells are
\* as many as the O cells or one more, and the turn is X exactly when they
\* are as many.
C37_CountsFollowTurn ==
    \A r \in RoomRefs :
        (Live(r) /\ rooms[r].fresh)
        => LET d == Count(rooms[r].state, "X") - Count(rooms[r].state, "O")
           IN /\ d \in {0, 1}
              /\ rooms[r].currentPlayer = "X" <=> d = 0

\* A room hydrated from the empty board holds two X and one O after three
\* accepted moves, and the turn is O.
C37_Witness ==
    \E r \in RoomRefs :
        /\ Live(r) /\ rooms[r].fresh
        /\ rooms[r].accepted = 3
        /\ Count(rooms[r].state, "X") = 2 /\ Count(rooms[r].state, "O") = 1
        /\ rooms[r].currentPlayer = "O"

\* C38: the step that accepts a move adds one to the non-empty cells of the
\* room's board; a room object hydrated from the empty board has accepted as
\* many moves as its board has non-empty cells, nine at most; and on a full
\* board makeMove rejects every position and player.
C38_GameIsFinite ==
    /\ [](\A r \in RoomRefs :
            (Live(r) /\ rooms[r].fresh)
            => rooms[r].accepted = Filled(rooms[r].state) /\ rooms[r].accepted <= 9)
    /\ [](\A c \in Codes :
            (Installed(c) /\ Filled(rooms[activeRooms[c]].state) = 9)
            => \A p \in Positions : \A u \in UserIds :
                  ~makeMove(rooms[activeRooms[c]], p, u).success)
    /\ [][moves' = moves + 1
            => \A h \in Moves(handlers') :
                  (h.lag = 0 /\ h.pc = "updateDB")
                     => Filled(rooms'[h.room].state) = Filled(rooms[h.room].state) + 1]_vars

\* A move has just been rejected on a full board.
C38_Witness ==
    /\ out.op = "make-move"
    /\ \E e \in Events(out) : e.ev = "invalid-move" /\ e.error = "Position already occupied"
    /\ Installed("A")
    /\ Filled(rooms[activeRooms["A"]].state) = 9
    /\ rooms[activeRooms["A"]].accepted = 3

\* A make-move handler awaits updateDB for a move that left a board of n
\* non-empty cells with a completed line or no empty cell.
DecidedAt(n) ==
    \E h \in Moves(handlers) :
        h.pc = "updateDB" /\ Filled(h.newState) = n /\ checkWinner(h.newState) # NoWinner

\* game-over is being broadcast to the room with a board of at least n
\* non-empty cells.
GameOverFrom(n) ==
    \E e \in Events(out) : e.ev = "game-over" /\ e.to = "room" /\ Filled(e.state) >= n

\* C39: with every store call returning in the end, whenever a move that
\* completes a line or fills the board has been accepted, a game-over
\* broadcast to the room that shows that move follows.
C39_GameOverFollows ==
    \A n \in 1 .. 9 : DecidedAt(n) ~> GameOverFrom(n)

\* game-over is being broadcast to the room with a winner.
C39_Witness ==
    /\ out.op = "declareResult"
    /\ \E e \in Events(out) : e.ev = "game-over" /\ e.to = "room" /\ e.winner \in Symbols

====
